---- MODULE Spec2Model ----
(***************************************************************************)
(* Model of the task manager's server handlers (createTask, updateTask,    *)
(* deleteTask, deleteCategory, createCategory, getTasks, getTaskById) over *)
(* the three tables of server/src/db/schema.ts.                            *)
(*                                                                         *)
(* Spec     : every handler call runs alone, from its first statement to   *)
(*            its last (one action per handler).                           *)
(* SpecConc : two clients; createTask and updateTask run one database      *)
(*            statement at a time (each await is a step), so statements of *)
(*            different calls interleave; the handlers open no transaction.*)
(*                                                                         *)
(* A nullable column holds <<>> (NULL) or <<v>>.  An optional input field  *)
(* is absent from the DOMAIN of the input (undefined), or present.         *)
(* The serial id of a task_categories row is never read by any handler;    *)
(* the table is a bag of (task_id, category_id) rows.                      *)
(***************************************************************************)
EXTENDS Integers, Sequences, FiniteSets, Bags, TLC

\* ---------------------------------------------------------------- bounds
MaxTasks == 2        \* task ids handed out by the serial column
MaxCats == 2         \* category ids handed out by the serial column
MaxIdsLen == 2       \* longest category_ids list of a request
MaxClock == 5        \* the clock advances with every timestamped write
MaxInFlight == 2     \* requests of the App sent and not yet settled
MaxToggles == 2      \* status toggles clicked in the App

\* ---------------------------------------------------------------- values
Null == <<>>
Some(v) == <<v>>

Has(input, f) == f \in DOMAIN input

Min(a, b) == IF a <= b THEN a ELSE b

\* (mutant) the labels are compared as text
PriorityRank_lexical(p) == CASE p = "high" -> 0 [] p = "low" -> 1 [] p = "medium" -> 2

\* pgEnum('task_priority', ['low', 'medium', 'high']): an enum column is
\* ordered by the position of the label in the declaration
PriorityRank(p) == CASE p = "low" -> 0 [] p = "medium" -> 1 [] p = "high" -> 2

\* category ids a request may name: every id the serial column can hand out
CatIdValues == 1..MaxCats

RECURSIVE SeqsUpTo(_, _)
SeqsUpTo(S, n) ==
    IF n = 0 THEN {<<>>}
    ELSE LET shorter == SeqsUpTo(S, n - 1)
         IN  shorter \cup {Append(s, x) : s \in {q \in shorter : Len(q) = n - 1}, x \in S}

CategoryIdLists == SeqsUpTo(CatIdValues, MaxIdsLen)

\* ---------------------------------------------------------------- state
VARIABLES
    tasksTable,           \* rows of tasks
    categoriesTable,      \* rows of categories
    taskCategoriesTable,  \* bag of rows [task_id, category_id]
    nextTaskId,           \* serial sequence of tasks.id
    nextCategoryId,       \* serial sequence of categories.id
    now,                  \* the clock read by defaultNow() and new Date(); it
                          \* advances with every timestamped write
    resp,                 \* the outcome of the last completed call
    calls,                \* SpecConc: the call each client has in flight
    app                   \* SpecClient: the state of the App component and
                          \* its requests in flight

vars == <<tasksTable, categoriesTable, taskCategoriesTable, nextTaskId,
          nextCategoryId, now, resp, calls, app>>

tables == <<tasksTable, categoriesTable, taskCategoriesTable>>

Clients == {1, 2}

\* a client's call: the handler and its input, the statement it is at (pc),
\* and the handler's locals: the id of the inserted task (task.id), the
\* position in category_ids of the validation loop, the value of new Date()
Idle == [pc |-> "idle", op |-> "none", input |-> Null, taskId |-> 0, i |-> 0, time |-> -1]

\* useState of App: no tasks, filter {}, sortBy 'created_at_desc', not
\* loading; mounted: the effects of the first render have run; inFlight:
\* the tRPC requests sent and not yet settled, in the order of sending;
\* toggled: for each handleToggleTaskStatus call, the task as stored when
\* the button was clicked
AppInit ==
    [mounted |-> FALSE, isLoading |-> FALSE, filter |-> <<>>,
     sortBy |-> "created_at_desc", tasks |-> <<>>, inFlight |-> <<>>,
     toggled |-> <<>>]

\* ---------------------------------------------------------------- requests
\* createTaskInputSchema after parsing: status and priority carry their
\* defaults, description and due_date are present (nullable)
TaskTemplates ==
    { [title |-> "Ship report", description |-> Null, status |-> "pending",
       due_date |-> Null, priority |-> "medium"],
      [title |-> "Pay rent", description |-> Some("monthly"), status |-> "completed",
       due_date |-> Some(1), priority |-> "high"] }

\* category_ids is optional: absent, or any list (for the second template,
\* any list of at most one id)
CreateTaskInputs ==
    TaskTemplates \cup
    UNION { {t @@ ("category_ids" :> ids) :
                ids \in {l \in CategoryIdLists : t.status = "pending" \/ Len(l) <= 1}}
            : t \in TaskTemplates }

\* updateTaskInputSchema: every field but id is optional
TaskPatches ==
    { [id |-> i] : i \in 1..MaxTasks } \cup
    { [id |-> i, status |-> "completed"] : i \in 1..MaxTasks } \cup
    { [id |-> i, title |-> "Renamed", description |-> Null, due_date |-> Some(2),
       priority |-> "low"] : i \in 1..MaxTasks }

\* a patch alone, category_ids alone (any list), or a patch of one field
\* together with a list of at most one id
UpdateTaskInputs ==
    TaskPatches \cup
    UNION { {p @@ ("category_ids" :> ids) :
                ids \in {l \in CategoryIdLists :
                           \/ DOMAIN p = {"id"}
                           \/ DOMAIN p = {"id", "status"} /\ Len(l) <= 1}}
            : p \in TaskPatches }

CreateCategoryInputs ==
    { [name |-> "Work", color |-> Some("#ff0000")],
      [name |-> "Home", color |-> Null] }

\* ---------------------------------------------------------------- schema
\* (mutant) every id the serial column can hand out is taken for a task's
TaskIds_anyId(tasks) == 1..MaxTasks

TaskIds(tasks) == {t.id : t \in tasks}
CategoryIds(cats) == {c.id : c \in cats}

\* (mutant) task_categories without its two references
ForeignKeysHold_unchecked(rows, tasks, cats) == TRUE

\* task_categories.task_id references tasks.id, category_id references
\* categories.id: an insert of rows that reference a missing row is rejected
\* as a whole
ForeignKeysHold(rows, tasks, cats) ==
    \A r \in BagToSet(rows) :
        r.task_id \in TaskIds(tasks) /\ r.category_id \in CategoryIds(cats)

\* (mutant) the rows of the task are not deleted
CascadeTask_keepsRows(tc, id) == tc

\* onDelete: 'cascade' on both references; the same rows are deleted by
\* delete from task_categories where task_id = id
CascadeTask(tc, id) ==
    LET keep == {r \in BagToSet(tc) : r.task_id # id}
    IN  [r \in keep |-> tc[r]]

\* (mutant) the delete empties the association table
CascadeCategory_dropsAll(tc, id) == EmptyBag

CascadeCategory(tc, id) ==
    LET keep == {r \in BagToSet(tc) : r.category_id # id}
    IN  [r \in keep |-> tc[r]]

\* input.category_ids.map(categoryId => ({task_id, category_id})): one row
\* per element of the list, equal elements give equal rows
AssociationRows(taskId, ids) ==
    LET rows == {[task_id |-> taskId, category_id |-> ids[i]] : i \in DOMAIN ids}
    IN  [r \in rows |-> Cardinality({i \in DOMAIN ids : ids[i] = r.category_id})]

\* ---------------------------------------------------------------- joins
\* tasks LEFT JOIN task_categories LEFT JOIN categories: one row per
\* association row of the task (copy tells equal association rows apart),
\* one row with NULL category columns for a task without association rows
CategoryColumns(cats, categoryId) ==
    LET match == {c \in cats : c.id = categoryId}
    IN  IF match = {} THEN Null ELSE Some(CHOOSE c \in match : TRUE)

JoinedRows(tasks, tc, cats) ==
    UNION { LET links == {r \in BagToSet(tc) : r.task_id = t.id}
            IN  IF links = {}
                THEN {[task |-> t, category |-> Null, copy |-> 1]}
                ELSE UNION { {[task |-> t,
                               category |-> CategoryColumns(cats, r.category_id),
                               copy |-> k] : k \in 1..CopiesIn(r, tc)} : r \in links }
          : t \in tasks }

\* NULLs sort as larger than every value: last in ASC, first in DESC
KeyLeq(a, b) ==
    IF b = Null THEN TRUE ELSE IF a = Null THEN FALSE ELSE a[1] <= b[1]

SortKey(row, sort) ==
    CASE sort \in {"due_date_asc", "due_date_desc"} -> row.task.due_date
      [] sort \in {"priority_asc", "priority_desc"} -> Some(PriorityRank(row.task.priority))
      [] OTHER -> Some(row.task.created_at)

\* (mutant) every sort is ascending
MayPrecede_ascending(a, b, sort) ==
    sort = "none" \/ KeyLeq(SortKey(a, sort), SortKey(b, sort))

\* may row a come before row b in a result ordered by sort ("none": the
\* statement has no ORDER BY, any order)
MayPrecede(a, b, sort) ==
    CASE sort = "none" -> TRUE
      [] sort \in {"due_date_asc", "priority_asc", "created_at_asc"} ->
            KeyLeq(SortKey(a, sort), SortKey(b, sort))
      [] OTHER -> KeyLeq(SortKey(b, sort), SortKey(a, sort))

\* every order in which the database may return the rows: rows with equal
\* keys come in any order
RECURSIVE RowOrders(_, _)
RowOrders(rows, sort) ==
    IF rows = {} THEN {<<>>}
    ELSE UNION { {<<a>> \o rest : rest \in RowOrders(rows \ {a}, sort)}
                 : a \in {x \in rows : \A y \in rows : MayPrecede(x, y, sort)} }

\* .filter(row => row.category_id !== null).map(row => category)
RECURSIVE CategoriesOfRows(_)
CategoriesOfRows(rows) ==
    IF rows = <<>> THEN <<>>
    ELSE IF Head(rows).category = Null THEN CategoriesOfRows(Tail(rows))
    ELSE <<Head(rows).category[1]>> \o CategoriesOfRows(Tail(rows))

\* categories.filter((category, index, self) =>
\*     index === self.findIndex(c => c.id === category.id))
RECURSIVE UniqueFrom(_, _)
UniqueFrom(s, i) ==
    IF i > Len(s) THEN <<>>
    ELSE IF \E j \in 1..(i - 1) : s[j].id = s[i].id THEN UniqueFrom(s, i + 1)
    ELSE <<s[i]>> \o UniqueFrom(s, i + 1)

uniqueCategories(categories) == UniqueFrom(categories, 1)

TaskWithCategories(task, categories) ==
    [id |-> task.id, title |-> task.title, description |-> task.description,
     status |-> task.status, due_date |-> task.due_date, priority |-> task.priority,
     created_at |-> task.created_at, updated_at |-> task.updated_at,
     categories |-> categories]

\* the re-read at the end of createTask and updateTask: the joined rows of
\* one task, grouped; empty when the task has no row
TaskWithCategoriesResult(id, tasks, tc, cats) ==
    { TaskWithCategories(rows[1].task, uniqueCategories(CategoriesOfRows(rows)))
      : rows \in RowOrders(JoinedRows({t \in tasks : t.id = id}, tc, cats), "none") \ {<<>>} }

\* ---------------------------------------------------------------- responses
\* what the caller of the last completed call got: the returned value, or
\* the error thrown
\* the error thrown; input is the request of a getTasks call, kept next to
\* the sequence it returned, and <<>> for every other call
NoResp == [op |-> "none", ok |-> TRUE, error |-> "", result |-> Null, input |-> Null]

Return(op, result) ==
    [op |-> op, ok |-> TRUE, error |-> "", result |-> result, input |-> Null]

Throw(op, error) ==
    [op |-> op, ok |-> FALSE, error |-> error, result |-> Null, input |-> Null]

\* ---------------------------------------------------------------- createCategory
\* (mutant) the id of the placeholder declaration
NewCategoryRow_idZero(input, id, time) ==
    [id |-> 0, name |-> input.name, color |-> input.color, created_at |-> time]

\* insert into categories: serial id, created_at defaultNow()
NewCategoryRow(input, id, time) ==
    [id |-> id, name |-> input.name, color |-> input.color, created_at |-> time]

createCategory(input) ==
    /\ nextCategoryId <= MaxCats
    /\ now < MaxClock
    /\ LET row == NewCategoryRow(input, nextCategoryId, now)
       IN  /\ categoriesTable' = categoriesTable \cup {row}
           /\ resp' = Return("createCategory", row)
    /\ nextCategoryId' = nextCategoryId + 1
    /\ now' = now + 1
    /\ UNCHANGED <<tasksTable, taskCategoriesTable, nextTaskId>>

\* ---------------------------------------------------------------- updateCategory
\* updateCategoryInputSchema: name and color are optional, color nullable
UpdateCategoryInputs ==
    UNION { { [id |-> i],
              [id |-> i, name |-> "Errands"],
              [id |-> i, color |-> Null],
              [id |-> i, name |-> "Errands", color |-> Some("#00ff00")] }
            : i \in 1..MaxCats }

\* (mutant) the category is never looked up
updateCategoryFound_always(cats, id) == TRUE

\* the category to update exists
updateCategoryFound(cats, id) == \E c \in cats : c.id = id

\* (mutant) a null color is taken for an absent one, a request without name
\* gets the name of the placeholder declaration
updateCategoryData_placeholder(category, input) ==
    [id |-> category.id,
     name |-> IF Has(input, "name") THEN input.name ELSE "Updated Category",
     color |-> IF Has(input, "color") /\ input.color # Null
               THEN input.color ELSE category.color,
     created_at |-> category.created_at]

\* field-level patch: a supplied field is written, null included
updateCategoryData(category, input) ==
    [id |-> category.id,
     name |-> IF Has(input, "name") THEN input.name ELSE category.name,
     color |-> IF Has(input, "color") THEN input.color ELSE category.color,
     created_at |-> category.created_at]

\* fails when the id does not resolve; returns the row as stored
updateCategory(input) ==
    /\ IF ~updateCategoryFound(categoriesTable, input.id)
       THEN /\ resp' = Throw("updateCategory", "Category not found")
            /\ categoriesTable' = categoriesTable
       ELSE /\ categoriesTable' =
                   {IF c.id = input.id THEN updateCategoryData(c, input) ELSE c :
                      c \in categoriesTable}
            /\ LET returned == {c \in categoriesTable' : c.id = input.id}
               IN  resp' = IF returned = {}
                           THEN Return("updateCategory", Null)
                           ELSE Return("updateCategory", Some(CHOOSE c \in returned : TRUE))
    /\ UNCHANGED <<tasksTable, taskCategoriesTable, nextTaskId, nextCategoryId, now>>

\* ---------------------------------------------------------------- getCategories
\* the names of the requests, in the order of the database's text
\* comparison
NameRank(name) == CASE name = "Errands" -> 0 [] name = "Home" -> 1 [] name = "Work" -> 2

\* (mutant) the select without orderBy
categoriesByName_unordered(cats) ==
    {order \in SeqsUpTo(cats, Cardinality(cats)) :
        Len(order) = Cardinality(cats) /\ \A c \in cats : \E i \in DOMAIN order : order[i] = c}

\* select from categories order by name asc: every order the database may
\* return, categories of one name in any order
RECURSIVE categoriesByName(_)
categoriesByName(cats) ==
    IF cats = {} THEN {<<>>}
    ELSE UNION { {<<a>> \o rest : rest \in categoriesByName(cats \ {a})}
                 : a \in {x \in cats : \A y \in cats : NameRank(x.name) <= NameRank(y.name)} }

getCategories ==
    /\ resp' \in {Return("getCategories", results) : results \in categoriesByName(categoriesTable)}
    /\ UNCHANGED <<tasksTable, categoriesTable, taskCategoriesTable, nextTaskId,
                   nextCategoryId, now>>

\* ---------------------------------------------------------------- createTask
\* input.category_ids && input.category_ids.length > 0
HasCategoryIds(input) ==
    Has(input, "category_ids") /\ Len(input.category_ids) > 0

\* (mutant) the check passes as soon as one of the ids resolves
createTaskCategoriesExist_someFound(ids, cats) ==
    Cardinality({c \in cats : \E i \in DOMAIN ids : ids[i] = c.id}) > 0

\* select from categories where id in (category_ids);
\* existingCategories.length !== input.category_ids.length -> throw
createTaskCategoriesExist(ids, cats) ==
    Cardinality({c \in cats : \E i \in DOMAIN ids : ids[i] = c.id}) = Len(ids)

\* insert into tasks ... returning
NewTaskRow(input, id, time) ==
    [id |-> id, title |-> input.title, description |-> input.description,
     status |-> IF Has(input, "status") THEN input.status ELSE "pending",
     due_date |-> input.due_date,
     priority |-> IF Has(input, "priority") THEN input.priority ELSE "medium",
     created_at |-> time, updated_at |-> time]

createTask(input) ==
    /\ UNCHANGED <<categoriesTable, nextCategoryId>>
    /\ IF HasCategoryIds(input) /\ ~createTaskCategoriesExist(input.category_ids, categoriesTable)
       THEN /\ resp' = Throw("createTask", "One or more category IDs do not exist")
            /\ UNCHANGED <<tasksTable, taskCategoriesTable, nextTaskId, now>>
       ELSE /\ nextTaskId <= MaxTasks
            /\ now < MaxClock
            /\ LET task == NewTaskRow(input, nextTaskId, now)
                   tasks1 == tasksTable \cup {task}
                   rows == IF HasCategoryIds(input)
                           THEN AssociationRows(task.id, input.category_ids)
                           ELSE EmptyBag
               IN  /\ tasksTable' = tasks1
                   /\ nextTaskId' = nextTaskId + 1
                   /\ now' = now + 1
                   /\ IF ForeignKeysHold(rows, tasks1, categoriesTable)
                      THEN /\ taskCategoriesTable' = taskCategoriesTable (+) rows
                           /\ resp' \in {Return("createTask", r) :
                                  r \in TaskWithCategoriesResult(task.id, tasks1,
                                            taskCategoriesTable', categoriesTable)}
                      ELSE /\ taskCategoriesTable' = taskCategoriesTable
                           /\ resp' = Throw("createTask", "foreign key violation")

\* ---------------------------------------------------------------- updateTask
\* (mutant) only the first id of the list is looked up
updateTaskCategoriesExist_firstOnly(ids, cats) ==
    ids[1] \in CategoryIds(cats)

\* for (const categoryId of input.category_ids): select by id, throw when
\* no row
updateTaskCategoriesExist(ids, cats) ==
    \A i \in DOMAIN ids : ids[i] \in CategoryIds(cats)

\* (mutant) a null description or due_date is taken for an absent one
updateData_nullIsAbsent(task, input, time) ==
    [id |-> task.id,
     title |-> IF Has(input, "title") THEN input.title ELSE task.title,
     description |-> IF Has(input, "description") /\ input.description # Null
                     THEN input.description ELSE task.description,
     status |-> IF Has(input, "status") THEN input.status ELSE task.status,
     due_date |-> IF Has(input, "due_date") /\ input.due_date # Null
                  THEN input.due_date ELSE task.due_date,
     priority |-> IF Has(input, "priority") THEN input.priority ELSE task.priority,
     created_at |-> task.created_at,
     updated_at |-> time]

\* updateData: updated_at always, a field only when it is not undefined
updateData(task, input, time) ==
    [id |-> task.id,
     title |-> IF Has(input, "title") THEN input.title ELSE task.title,
     description |-> IF Has(input, "description") THEN input.description ELSE task.description,
     status |-> IF Has(input, "status") THEN input.status ELSE task.status,
     due_date |-> IF Has(input, "due_date") THEN input.due_date ELSE task.due_date,
     priority |-> IF Has(input, "priority") THEN input.priority ELSE task.priority,
     created_at |-> task.created_at,
     updated_at |-> time]

\* (mutant) updated_at is written back as it was read
UpdateTaskRows_staleUpdatedAt(tasks, input, time) ==
    {IF t.id = input.id THEN updateData(t, input, t.updated_at) ELSE t : t \in tasks}

\* update tasks set ... where id = input.id
UpdateTaskRows(tasks, input, time) ==
    {IF t.id = input.id THEN updateData(t, input, time) ELSE t : t \in tasks}

updateTask(input) ==
    /\ UNCHANGED <<categoriesTable, nextTaskId, nextCategoryId>>
    /\ IF input.id \notin TaskIds(tasksTable)
       THEN /\ resp' = Throw("updateTask", "Task not found")
            /\ UNCHANGED <<tasksTable, taskCategoriesTable, now>>
       ELSE IF HasCategoryIds(input)
               /\ ~updateTaskCategoriesExist(input.category_ids, categoriesTable)
       THEN /\ resp' = Throw("updateTask", "Category not found")
            /\ UNCHANGED <<tasksTable, taskCategoriesTable, now>>
       ELSE /\ now < MaxClock
            /\ now' = now + 1
            /\ LET tasks1 == UpdateTaskRows(tasksTable, input, now)
                   tc1 == IF Has(input, "category_ids")
                          THEN CascadeTask(taskCategoriesTable, input.id)
                          ELSE taskCategoriesTable
                   rows == IF HasCategoryIds(input)
                           THEN AssociationRows(input.id, input.category_ids)
                           ELSE EmptyBag
               IN  /\ tasksTable' = tasks1
                   /\ IF ForeignKeysHold(rows, tasks1, categoriesTable)
                      THEN /\ taskCategoriesTable' = tc1 (+) rows
                           /\ LET results == TaskWithCategoriesResult(input.id, tasks1,
                                                 taskCategoriesTable', categoriesTable)
                              IN  IF results = {}
                                  THEN resp' = Throw("updateTask", "Task not found after update")
                                  ELSE resp' \in {Return("updateTask", r) : r \in results}
                      ELSE /\ taskCategoriesTable' = tc1
                           /\ resp' = Throw("updateTask", "foreign key violation")

\* ---------------------------------------------------------------- deletes
\* delete from tasks where id = input.id returning; success: result.length > 0
deleteTask(input) ==
    /\ tasksTable' = {t \in tasksTable : t.id # input.id}
    /\ taskCategoriesTable' = CascadeTask(taskCategoriesTable, input.id)
    /\ resp' = Return("deleteTask",
                      [success |-> input.id \in TaskIds(tasksTable)])
    /\ UNCHANGED <<categoriesTable, nextTaskId, nextCategoryId, now>>

deleteCategory(input) ==
    /\ categoriesTable' = {c \in categoriesTable : c.id # input.id}
    /\ taskCategoriesTable' = CascadeCategory(taskCategoriesTable, input.id)
    /\ resp' = Return("deleteCategory",
                      [success |-> input.id \in CategoryIds(categoriesTable)])
    /\ UNCHANGED <<tasksTable, nextTaskId, nextCategoryId, now>>

IdParams == {[id |-> i] : i \in 1..MaxTasks}
CategoryIdParams == {[id |-> i] : i \in 1..MaxCats}

\* ---------------------------------------------------------------- getTaskById
\* (mutant) the join condition on task_id is missing: the rows of every task
categoryResults_ofEveryTask(id, tc, cats) ==
    LET rows == JoinedRows({[id |-> t] : t \in {r.task_id : r \in BagToSet(tc)}}, tc, cats)
        found == {r \in rows : r.category # Null}
    IN  {CategoriesOfRows(order) : order \in RowOrders(found, "none")}

\* categories INNER JOIN task_categories where task_id = input.id: one row
\* per association row, returned as they come
categoryResults(id, tc, cats) ==
    LET rows == JoinedRows({[id |-> id]}, tc, cats)
        found == {r \in rows : r.category # Null}
    IN  {CategoriesOfRows(order) : order \in RowOrders(found, "none")}

getTaskById(input) ==
    /\ LET taskResults == {t \in tasksTable : t.id = input.id}
       IN  IF taskResults = {}
           THEN resp' = Return("getTaskById", Null)
           ELSE resp' \in {Return("getTaskById",
                                  Some(TaskWithCategories(CHOOSE t \in taskResults : TRUE, cs))) :
                             cs \in categoryResults(input.id, taskCategoriesTable, categoriesTable)}
    /\ UNCHANGED <<tasksTable, categoriesTable, taskCategoriesTable, nextTaskId,
                   nextCategoryId, now>>

\* ---------------------------------------------------------------- getCategoryById
\* select from categories where id = input.id; null when no row
getCategoryById(input) ==
    /\ LET results == {c \in categoriesTable : c.id = input.id}
       IN  resp' = IF results = {}
                   THEN Return("getCategoryById", Null)
                   ELSE Return("getCategoryById", Some(CHOOSE c \in results : TRUE))
    /\ UNCHANGED <<tasksTable, categoriesTable, taskCategoriesTable, nextTaskId,
                   nextCategoryId, now>>

\* ---------------------------------------------------------------- getTasks
\* const { filter = {}, sort = 'created_at_desc', limit, offset = 0 } = input
\* (mutant) the filter of the request is not read
FilterOf_none(input) == <<>>

FilterOf(input) == IF Has(input, "filter") THEN input.filter ELSE <<>>
SortOf(input) == IF Has(input, "sort") THEN input.sort ELSE "created_at_desc"
OffsetOf(input) == IF Has(input, "offset") THEN input.offset ELSE 0

\* (mutant) lt and gt in place of lte and gte
RowMatches_strict(row, filter) ==
    /\ Has(filter, "status") => row.task.status = filter.status
    /\ Has(filter, "priority") => row.task.priority = filter.priority
    /\ (Has(filter, "category_id") /\ filter.category_id # 0) =>
           (row.category # Null /\ row.category[1].id = filter.category_id)
    /\ Has(filter, "due_before") =>
           (row.task.due_date # Null /\ row.task.due_date[1] < filter.due_before)
    /\ Has(filter, "due_after") =>
           (row.task.due_date # Null /\ row.task.due_date[1] > filter.due_after)

\* the conditions pushed for the filter, joined by and(): a condition is
\* pushed only when the filter value is truthy (0 is not); a comparison with
\* a NULL column is not true
RowMatches(row, filter) ==
    /\ Has(filter, "status") => row.task.status = filter.status
    /\ Has(filter, "priority") => row.task.priority = filter.priority
    /\ (Has(filter, "category_id") /\ filter.category_id # 0) =>
           (row.category # Null /\ row.category[1].id = filter.category_id)
    /\ Has(filter, "due_before") =>
           (row.task.due_date # Null /\ row.task.due_date[1] <= filter.due_before)
    /\ Has(filter, "due_after") =>
           (row.task.due_date # Null /\ row.task.due_date[1] >= filter.due_after)

\* .offset(offset) and, if (limit), .limit(limit) on the joined rows
Page(rows, input) ==
    LET last == IF Has(input, "limit") /\ input.limit # 0
                THEN Min(Len(rows), OffsetOf(input) + input.limit)
                ELSE Len(rows)
    IN  SubSeq(rows, OffsetOf(input) + 1, last)

\* (mutant) the loop without the categoryExists check
AddRow_pushesAlways(acc, row) ==
    LET known == {i \in DOMAIN acc : acc[i].id = row.task.id}
        acc1 == IF known = {} THEN Append(acc, TaskWithCategories(row.task, <<>>)) ELSE acc
        i == CHOOSE k \in DOMAIN acc1 : acc1[k].id = row.task.id
    IN  IF row.category # Null
        THEN [acc1 EXCEPT ![i].categories = Append(@, row.category[1])]
        ELSE acc1

\* the taskMap loop: a task enters the map at its first row, a category is
\* pushed when row.category_id && row.category_name and no category of the
\* task has that id yet
AddRow(acc, row) ==
    LET known == {i \in DOMAIN acc : acc[i].id = row.task.id}
        acc1 == IF known = {} THEN Append(acc, TaskWithCategories(row.task, <<>>)) ELSE acc
        i == CHOOSE k \in DOMAIN acc1 : acc1[k].id = row.task.id
        push == /\ row.category # Null
                /\ row.category[1].id # 0
                /\ row.category[1].name # ""
                /\ \A k \in DOMAIN acc1[i].categories :
                       acc1[i].categories[k].id # row.category[1].id
    IN  IF push
        THEN [acc1 EXCEPT ![i].categories = Append(@, row.category[1])]
        ELSE acc1

RECURSIVE Aggregate(_, _)
Aggregate(acc, rows) ==
    IF rows = <<>> THEN acc ELSE Aggregate(AddRow(acc, Head(rows)), Tail(rows))

\* every sequence getTasks may return for the input in the given store
getTasksResults(input, tasks, tc, cats) ==
    LET matching == {r \in JoinedRows(tasks, tc, cats) : RowMatches(r, FilterOf(input))}
    IN  {Aggregate(<<>>, Page(results, input)) : results \in RowOrders(matching, SortOf(input))}

getTasks(input) ==
    /\ resp' \in {[Return("getTasks", r) EXCEPT !.input = Some(input)] :
                    r \in getTasksResults(input, tasksTable, taskCategoriesTable,
                                          categoriesTable)}
    /\ UNCHANGED <<tasksTable, categoriesTable, taskCategoriesTable, nextTaskId,
                   nextCategoryId, now>>

\* requests: every sort without filter, every filter shape with the default
\* sort, and pages of the unfiltered and of a filtered list
TaskFilters ==
    { [status |-> s] : s \in {"pending", "completed"} } \cup
    { [priority |-> p] : p \in {"low", "medium", "high"} } \cup
    { [status |-> s, priority |-> p] : s \in {"pending", "completed"}, p \in {"medium", "high"} } \cup
    { [category_id |-> c] : c \in 0..MaxCats } \cup
    { [category_id |-> 1, status |-> "pending"] } \cup
    { [due_before |-> d] : d \in 1..2 } \cup
    { [due_after |-> d] : d \in 1..2 }

TaskSorts == {"due_date_asc", "due_date_desc", "priority_asc", "priority_desc",
              "created_at_asc", "created_at_desc"}

PageLimits == 1..2
PageOffsets == 0..2

GetTasksInputs ==
    { <<>> } \cup
    { [sort |-> s, offset |-> 0] : s \in TaskSorts } \cup
    { [filter |-> f, sort |-> "created_at_desc", offset |-> 0] : f \in TaskFilters \cup {<<>>} } \cup
    { [sort |-> "created_at_asc", offset |-> k] : k \in PageOffsets } \cup
    { [sort |-> s, limit |-> n, offset |-> k] :
        s \in {"created_at_asc", "priority_desc"}, n \in PageLimits, k \in PageOffsets } \cup
    { [filter |-> [category_id |-> 1], sort |-> "created_at_asc", limit |-> n, offset |-> k] :
        n \in PageLimits, k \in PageOffsets }

\* ---------------------------------------------------------------- Spec
Init ==
    /\ tasksTable = {}
    /\ categoriesTable = {}
    /\ taskCategoriesTable = EmptyBag
    /\ nextTaskId = 1
    /\ nextCategoryId = 1
    /\ now = 0
    /\ resp = NoResp
    /\ calls = [c \in Clients |-> Idle]
    /\ app = AppInit

\* one call at a time, each from its first statement to its last
Next ==
    \/ \E input \in CreateCategoryInputs : createCategory(input) /\ UNCHANGED <<calls, app>>
    \/ \E input \in CreateTaskInputs : createTask(input) /\ UNCHANGED <<calls, app>>
    \/ \E input \in UpdateTaskInputs : updateTask(input) /\ UNCHANGED <<calls, app>>
    \/ \E input \in IdParams : deleteTask(input) /\ UNCHANGED <<calls, app>>
    \/ \E input \in CategoryIdParams : deleteCategory(input) /\ UNCHANGED <<calls, app>>
    \/ \E input \in IdParams : getTaskById(input) /\ UNCHANGED <<calls, app>>
    \/ \E input \in CategoryIdParams : getCategoryById(input) /\ UNCHANGED <<calls, app>>

Spec == Init /\ [][Next]_vars

\* the store is filled by createCategory, createTask and by updateTask
\* requests that carry only category_ids; getTasks reads it.  getTasks
\* changes no table, so a store reached with reads in between is reached
\* without them: a behaviour of SpecQuery is a run of writes and then one
\* read, and every reachable store is read with every request
\* the tasks of the store: those of CreateTaskInputs, and one of low
\* priority with a later due date
QueryCreateTaskInputs ==
    CreateTaskInputs \cup
    { [title |-> "Call home", description |-> Null, status |-> "pending",
       due_date |-> Some(2), priority |-> "low"] }

ReplaceCategoriesInputs ==
    {[id |-> i, category_ids |-> ids] : i \in 1..MaxTasks, ids \in CategoryIdLists}

Fill ==
    \/ \E input \in CreateCategoryInputs : createCategory(input) /\ UNCHANGED <<calls, app>>
    \/ \E input \in QueryCreateTaskInputs : createTask(input) /\ UNCHANGED <<calls, app>>
    \/ \E input \in ReplaceCategoriesInputs : updateTask(input) /\ UNCHANGED <<calls, app>>

Read == \E input \in GetTasksInputs : getTasks(input) /\ UNCHANGED <<calls, app>>

NextQuery == resp.op # "getTasks" /\ (Fill \/ Read)

SpecQuery == Init /\ [][NextQuery]_vars

\* ---------------------------------------------------------------- SpecConc
\* The store is set up by whole calls; then each of two clients makes one
\* call, both at the same time.  Every await of createTask and updateTask is
\* a step: the statement runs alone, and statements of the other client's
\* call run between two statements of this one.
Free(c) == calls[c].pc = "idle"

Call(op, input, pc) ==
    [pc |-> pc, op |-> op, input |-> input, taskId |-> 0, i |-> 0, time |-> -1]

Goto(c, pc) == calls' = [calls EXCEPT ![c].pc = pc]

ConcCreateTaskInputs ==
    {in \in CreateTaskInputs :
        /\ in.title = "Ship report"
        /\ Has(in, "category_ids")
        /\ in.category_ids \in {<<>>, <<1>>, <<1, 2>>}}

ConcUpdateTaskInputs ==
    {in \in UpdateTaskInputs :
        /\ in.id = 1
        /\ \/ DOMAIN in = {"id", "status"}
           \/ DOMAIN in = {"id", "category_ids"}
              /\ in.category_ids \in {<<>>, <<1>>, <<2>>, <<1, 2>>}}

\* createTask, lines 20-30: the validation select
ctBegin(c, input) ==
    /\ Free(c)
    /\ IF HasCategoryIds(input) /\ ~createTaskCategoriesExist(input.category_ids, categoriesTable)
       THEN /\ calls' = [calls EXCEPT ![c] = Call("createTask", input, "thrown")]
            /\ resp' = Throw("createTask", "One or more category IDs do not exist")
       ELSE /\ calls' = [calls EXCEPT ![c] = Call("createTask", input, "insertTask")]
            /\ resp' = resp
    /\ UNCHANGED <<tasksTable, categoriesTable, taskCategoriesTable, nextTaskId,
                   nextCategoryId, now>>

\* lines 33-44: insert into tasks ... returning
ctInsertTask(c) ==
    /\ calls[c].op = "createTask" /\ calls[c].pc = "insertTask"
    /\ nextTaskId <= MaxTasks
    /\ now < MaxClock
    /\ tasksTable' = tasksTable \cup {NewTaskRow(calls[c].input, nextTaskId, now)}
    /\ nextTaskId' = nextTaskId + 1
    /\ now' = now + 1
    /\ calls' = [calls EXCEPT ![c].taskId = nextTaskId,
                              ![c].pc = IF HasCategoryIds(calls[c].input)
                                        THEN "insertCategories" ELSE "read"]
    /\ UNCHANGED <<categoriesTable, taskCategoriesTable, nextCategoryId, resp>>

\* lines 47-56: insert into task_categories
ctInsertCategories(c) ==
    /\ calls[c].op = "createTask" /\ calls[c].pc = "insertCategories"
    /\ LET rows == AssociationRows(calls[c].taskId, calls[c].input.category_ids)
       IN  IF ForeignKeysHold(rows, tasksTable, categoriesTable)
           THEN /\ taskCategoriesTable' = taskCategoriesTable (+) rows
                /\ Goto(c, "read")
                /\ resp' = resp
           ELSE /\ taskCategoriesTable' = taskCategoriesTable
                /\ Goto(c, "thrown")
                /\ resp' = Throw("createTask", "foreign key violation")
    /\ UNCHANGED <<tasksTable, categoriesTable, nextTaskId, nextCategoryId, now>>

\* lines 59-106: the joined select of the task; taskData is undefined, and
\* reading it throws, when the task has no row any more
ctRead(c) ==
    /\ calls[c].op = "createTask" /\ calls[c].pc = "read"
    /\ LET results == TaskWithCategoriesResult(calls[c].taskId, tasksTable,
                                               taskCategoriesTable, categoriesTable)
       IN  IF results = {}
           THEN Goto(c, "thrown") /\ resp' = Throw("createTask", "TypeError")
           ELSE Goto(c, "returned") /\ resp' \in {Return("createTask", r) : r \in results}
    /\ UNCHANGED <<tasksTable, categoriesTable, taskCategoriesTable, nextTaskId,
                   nextCategoryId, now>>

\* updateData is built, and new Date() read, as soon as the validation is
\* over; the update statement runs in the next step
ToUpdate(c, call) ==
    /\ now < MaxClock
    /\ now' = now + 1
    /\ calls' = [calls EXCEPT ![c] = [call EXCEPT !.pc = "update", !.time = now]]

\* updateTask, lines 28-36: select the task by id
utBegin(c, input) ==
    /\ Free(c)
    /\ IF input.id \notin TaskIds(tasksTable)
       THEN /\ calls' = [calls EXCEPT ![c] = Call("updateTask", input, "thrown")]
            /\ resp' = Throw("updateTask", "Task not found")
            /\ now' = now
       ELSE /\ resp' = resp
            /\ IF HasCategoryIds(input)
               THEN /\ calls' = [calls EXCEPT ![c] =
                                    [Call("updateTask", input, "checkCategory") EXCEPT !.i = 1]]
                    /\ now' = now
               ELSE ToUpdate(c, Call("updateTask", input, "update"))
    /\ UNCHANGED <<tasksTable, categoriesTable, taskCategoriesTable, nextTaskId,
                   nextCategoryId>>

\* lines 46-55: one select per element of category_ids
utCheckCategory(c) ==
    /\ calls[c].op = "updateTask" /\ calls[c].pc = "checkCategory"
    /\ LET ids == calls[c].input.category_ids
       IN  IF ids[calls[c].i] \notin CategoryIds(categoriesTable)
           THEN /\ Goto(c, "thrown")
                /\ resp' = Throw("updateTask", "Category not found")
                /\ now' = now
           ELSE /\ resp' = resp
                /\ IF calls[c].i < Len(ids)
                   THEN calls' = [calls EXCEPT ![c].i = @ + 1] /\ now' = now
                   ELSE ToUpdate(c, calls[c])
    /\ UNCHANGED <<tasksTable, categoriesTable, taskCategoriesTable, nextTaskId,
                   nextCategoryId>>

\* lines 70-73: update tasks set updateData where id
utUpdate(c) ==
    /\ calls[c].op = "updateTask" /\ calls[c].pc = "update"
    /\ tasksTable' = UpdateTaskRows(tasksTable, calls[c].input, calls[c].time)
    /\ Goto(c, IF Has(calls[c].input, "category_ids") THEN "deleteCategories" ELSE "read")
    /\ UNCHANGED <<categoriesTable, taskCategoriesTable, nextTaskId, nextCategoryId,
                   now, resp>>

\* lines 78-80: delete from task_categories where task_id
utDeleteCategories(c) ==
    /\ calls[c].op = "updateTask" /\ calls[c].pc = "deleteCategories"
    /\ taskCategoriesTable' = CascadeTask(taskCategoriesTable, calls[c].input.id)
    /\ Goto(c, IF HasCategoryIds(calls[c].input) THEN "insertCategories" ELSE "read")
    /\ UNCHANGED <<tasksTable, categoriesTable, nextTaskId, nextCategoryId, now, resp>>

\* lines 83-92: insert into task_categories
utInsertCategories(c) ==
    /\ calls[c].op = "updateTask" /\ calls[c].pc = "insertCategories"
    /\ LET rows == AssociationRows(calls[c].input.id, calls[c].input.category_ids)
       IN  IF ForeignKeysHold(rows, tasksTable, categoriesTable)
           THEN /\ taskCategoriesTable' = taskCategoriesTable (+) rows
                /\ Goto(c, "read")
                /\ resp' = resp
           ELSE /\ taskCategoriesTable' = taskCategoriesTable
                /\ Goto(c, "thrown")
                /\ resp' = Throw("updateTask", "foreign key violation")
    /\ UNCHANGED <<tasksTable, categoriesTable, nextTaskId, nextCategoryId, now>>

\* lines 96-146: the joined select; no row: 'not found after update'
utRead(c) ==
    /\ calls[c].op = "updateTask" /\ calls[c].pc = "read"
    /\ LET results == TaskWithCategoriesResult(calls[c].input.id, tasksTable,
                                               taskCategoriesTable, categoriesTable)
       IN  IF results = {}
           THEN Goto(c, "thrown") /\ resp' = Throw("updateTask", "Task not found after update")
           ELSE Goto(c, "returned") /\ resp' \in {Return("updateTask", r) : r \in results}
    /\ UNCHANGED <<tasksTable, categoriesTable, taskCategoriesTable, nextTaskId,
                   nextCategoryId, now>>

\* a handler of one statement runs in one step
Whole(c, op, input) ==
    /\ Free(c)
    /\ calls' = [calls EXCEPT ![c] =
                    Call(op, input, IF resp'.ok THEN "returned" ELSE "thrown")]

Setup ==
    /\ \A c \in Clients : Free(c)
    /\ UNCHANGED <<calls, app>>
    /\ \/ \E input \in CreateCategoryInputs : createCategory(input)
       \/ \E input \in ConcCreateTaskInputs : createTask(input)

Step(c) ==
    /\ UNCHANGED app
    /\ \/ \E input \in CategoryIdParams :
              deleteCategory(input) /\ Whole(c, "deleteCategory", input)
       \/ \E input \in {[id |-> 1]} : deleteTask(input) /\ Whole(c, "deleteTask", input)
       \/ \E input \in CreateCategoryInputs :
              createCategory(input) /\ Whole(c, "createCategory", input)
       \/ \E input \in ConcCreateTaskInputs : ctBegin(c, input)
       \/ ctInsertTask(c)
       \/ ctInsertCategories(c)
       \/ ctRead(c)
       \/ \E input \in ConcUpdateTaskInputs : utBegin(c, input)
       \/ utCheckCategory(c)
       \/ utUpdate(c)
       \/ utDeleteCategories(c)
       \/ utInsertCategories(c)
       \/ utRead(c)

NextConc == Setup \/ \E c \in Clients : Step(c)

SpecConc == Init /\ [][NextConc]_vars

\* ---------------------------------------------------------------- SpecCategories
\* the category handlers, one call at a time, next to createTask requests
\* that associate the one task with categories
NextCategories ==
    \/ \E input \in CreateCategoryInputs : createCategory(input) /\ UNCHANGED <<calls, app>>
    \/ \E input \in UpdateCategoryInputs : updateCategory(input) /\ UNCHANGED <<calls, app>>
    \/ \E input \in CategoryIdParams : deleteCategory(input) /\ UNCHANGED <<calls, app>>
    \/ \E input \in CategoryIdParams : getCategoryById(input) /\ UNCHANGED <<calls, app>>
    \/ getCategories /\ UNCHANGED <<calls, app>>
    \/ \E input \in ConcCreateTaskInputs : createTask(input) /\ UNCHANGED <<calls, app>>

SpecCategories == Init /\ [][NextCategories]_vars

\* ---------------------------------------------------------------- SpecClient
\* The App component (client/src/App.tsx) in front of the server.  The store
\* is filled by whole server calls before the App mounts.  A tRPC request is
\* sent, served by its handler at some later moment, and settled in the App
\* at some moment after that: requests in flight are served and settled in
\* any order.
server == <<tasksTable, categoriesTable, taskCategoriesTable, nextTaskId,
            nextCategoryId, now, resp>>

\* the filters and sorts picked in the TaskFilters panel
AppFilters == {<<>>, [status |-> "completed"]}
AppSorts == {"created_at_desc", "priority_asc"}

Request(op, input) ==
    [op |-> op, input |-> input, pc |-> "sent", ok |-> TRUE, result |-> Null]

Without(s, i) == SubSeq(s, 1, i - 1) \o SubSeq(s, i + 1, Len(s))

CanSend == app.mounted /\ Len(app.inFlight) < MaxInFlight

\* loadTasks up to its await: setIsLoading(true), trpc.getTasks.query of the
\* filter and sortBy of the render that created the callback
loadTasks(a) ==
    [a EXCEPT !.isLoading = TRUE,
              !.inFlight = Append(@, Request("getTasks",
                               [filter |-> a.filter, sort |-> a.sortBy, offset |-> 0]))]

\* useEffect(() => { loadTasks() }, [loadTasks]) after the first render
AppMount ==
    /\ ~app.mounted
    /\ app' = loadTasks([app EXCEPT !.mounted = TRUE])
    /\ UNCHANGED <<server, calls>>

\* onFilterChange={setFilter}: the panel passes a new object, so loadTasks is
\* a new callback and the effect runs again
setFilter(f) ==
    /\ CanSend
    /\ app' = loadTasks([app EXCEPT !.filter = f])
    /\ UNCHANGED <<server, calls>>

\* onSortChange={setSortBy}: a state set to the value it has renders nothing
setSortBy(sort) ==
    /\ CanSend
    /\ sort # app.sortBy
    /\ app' = loadTasks([app EXCEPT !.sortBy = sort])
    /\ UNCHANGED <<server, calls>>

\* handleToggleTaskStatus(task) with the task of row k of the rendered list
\* (TaskList renders the rows only while isLoading is false), then
\* handleUpdateTask up to its await: setIsLoading(true), trpc.updateTask
handleToggleTaskStatus(k) ==
    /\ CanSend
    /\ ~app.isLoading
    /\ k \in DOMAIN app.tasks
    /\ Len(app.toggled) < MaxToggles
    /\ LET task == app.tasks[k]
           newStatus == IF task.status = "completed" THEN "pending" ELSE "completed"
           links == {r \in BagToSet(taskCategoriesTable) : r.task_id = task.id}
       IN  app' = [app EXCEPT
                     !.isLoading = TRUE,
                     !.inFlight = Append(@, Request("updateTask",
                                      [id |-> task.id, status |-> newStatus])),
                     !.toggled = Append(@,
                         [id |-> task.id,
                          stored |-> {t \in tasksTable : t.id = task.id},
                          links |-> [r \in links |-> taskCategoriesTable[r]]])]
    /\ UNCHANGED <<server, calls>>

\* the server runs the handler of request i
Serve(i) ==
    /\ i \in DOMAIN app.inFlight
    /\ app.inFlight[i].pc = "sent"
    /\ \/ app.inFlight[i].op = "getTasks" /\ getTasks(app.inFlight[i].input)
       \/ app.inFlight[i].op = "updateTask" /\ updateTask(app.inFlight[i].input)
    /\ app' = [app EXCEPT !.inFlight[i].pc = "answered",
                          !.inFlight[i].ok = resp'.ok,
                          !.inFlight[i].result = resp'.result]
    /\ UNCHANGED calls

\* loadTasks after its await: setTasks(result); finally setIsLoading(false)
loadTasksSettled(i) ==
    /\ i \in DOMAIN app.inFlight
    /\ app.inFlight[i].op = "getTasks"
    /\ app.inFlight[i].pc = "answered"
    /\ app' = [app EXCEPT !.tasks = app.inFlight[i].result,
                          !.isLoading = FALSE,
                          !.inFlight = Without(@, i)]
    /\ UNCHANGED <<server, calls>>

\* handleUpdateTask after its await: setTasks(prev => prev.map(task =>
\* task.id === updatedTask.id ? updatedTask : task)), nothing when the call
\* threw; finally setIsLoading(false)
handleUpdateTaskSettled(i) ==
    /\ i \in DOMAIN app.inFlight
    /\ app.inFlight[i].op = "updateTask"
    /\ app.inFlight[i].pc = "answered"
    /\ LET updatedTask == app.inFlight[i].result
       IN  app' = [app EXCEPT
                     !.tasks = IF app.inFlight[i].ok
                               THEN [n \in DOMAIN @ |->
                                        IF @[n].id = updatedTask.id THEN updatedTask ELSE @[n]]
                               ELSE @,
                     !.isLoading = FALSE,
                     !.inFlight = Without(@, i)]
    /\ UNCHANGED <<server, calls>>

\* the store before the App mounts: categories named "Work", tasks "Ship
\* report" without category or with category 1
ClientCreateCategoryInputs == {in \in CreateCategoryInputs : in.name = "Work"}

ClientCreateTaskInputs ==
    {in \in ConcCreateTaskInputs : in.category_ids \in {<<>>, <<1>>}}

SetupClient ==
    /\ ~app.mounted
    /\ UNCHANGED <<calls, app>>
    /\ \/ \E input \in ClientCreateCategoryInputs : createCategory(input)
       \/ \E input \in ClientCreateTaskInputs : createTask(input)

NextClient ==
    \/ SetupClient
    \/ AppMount
    \/ \E f \in AppFilters : setFilter(f)
    \/ \E sort \in AppSorts : setSortBy(sort)
    \/ \E k \in 1..MaxTasks : handleToggleTaskStatus(k)
    \/ \E i \in 1..MaxInFlight : Serve(i)
    \/ \E i \in 1..MaxInFlight : loadTasksSettled(i)
    \/ \E i \in 1..MaxInFlight : handleUpdateTaskSettled(i)

SpecClient == Init /\ [][NextClient]_vars

\* ================================================================ claims
\* the categories a task is associated with in the store
AssociatedCategories(taskId, tc) ==
    {r.category_id : r \in {x \in BagToSet(tc) : x.task_id = taskId}}

Range(list) == {list[i] : i \in DOMAIN list}

IdsOf(list) == {list[i].id : i \in DOMAIN list}

NoRepeatedId(list) ==
    \A i, j \in DOMAIN list : list[i].id = list[j].id => i = j

\* C1: a createTask call whose category_ids names an id of no existing
\* category fails, and leaves the tasks table and the association table as
\* they were before the call.
C1_CreateTaskRejectsUnknownCategory ==
    [][\A input \in CreateTaskInputs :
          ( /\ Has(input, "category_ids")
            /\ \E i \in DOMAIN input.category_ids :
                   input.category_ids[i] \notin CategoryIds(categoriesTable)
            /\ resp'.op = "createTask"
            /\ createTask(input) )
          => ( /\ ~resp'.ok
               /\ tasksTable' = tasksTable
               /\ taskCategoriesTable' = taskCategoriesTable )]_vars

\* a createTask call was rejected for its category ids while a category and
\* a task exist (so there were rows to keep, and ids that do resolve)
C1_Witness ==
    /\ resp.op = "createTask"
    /\ resp.error = "One or more category IDs do not exist"
    /\ categoriesTable # {}
    /\ tasksTable # {}

\* C2: after a successful updateTask on task t the categories associated
\* with t are exactly the ids of category_ids when it was supplied (none for
\* the empty list), and exactly t's categories of before the call when it
\* was omitted; the returned categories are that same set.
C2_UpdateTaskReplacesAssociations ==
    [][\A input \in UpdateTaskInputs :
          (resp'.op = "updateTask" /\ resp'.ok /\ updateTask(input))
          => LET before == AssociatedCategories(input.id, taskCategoriesTable)
                 after == AssociatedCategories(input.id, taskCategoriesTable')
             IN  /\ Has(input, "category_ids") => after = Range(input.category_ids)
                 /\ ~Has(input, "category_ids") => after = before
                 /\ IdsOf(resp'.result.categories) = after
                 /\ Range(resp'.result.categories) \subseteq categoriesTable]_vars

\* an updateTask call returned a task without categories while another task
\* still has one: the call emptied, or left empty, one task's associations
\* and kept the other's
C2_Witness ==
    /\ resp.op = "updateTask"
    /\ resp.ok
    /\ resp.result.categories = <<>>
    /\ \E r \in BagToSet(taskCategoriesTable) : r.task_id # resp.result.id

\* C3: getTasks with limit n and offset k returns the distinct tasks at
\* positions k+1 .. k+n of the filtered, sorted sequence of tasks (the
\* sequence the same request returns without limit and offset).
C3_PageOfDistinctTasks ==
    (resp.op = "getTasks" /\ Has(resp.input[1], "limit"))
    => LET input == resp.input[1]
           whole == [f \in DOMAIN input \ {"limit", "offset"} |-> input[f]]
           first == OffsetOf(input) + 1
       IN  \E full \in getTasksResults(whole, tasksTable, taskCategoriesTable,
                                       categoriesTable) :
               LET page == SubSeq(full, first,
                                  Min(Len(full), OffsetOf(input) + input.limit))
               IN  /\ Len(resp.result) = Len(page)
                   /\ \A i \in DOMAIN page : resp.result[i].id = page[i].id

\* C4: without limit, every task getTasks returns carries all the categories
\* the store associates with it, whatever the filter.
C4_FullCategoryList ==
    (resp.op = "getTasks" /\ ~Has(resp.input[1], "limit") /\ OffsetOf(resp.input[1]) = 0)
    => \A i \in DOMAIN resp.result :
           IdsOf(resp.result[i].categories) =
               AssociatedCategories(resp.result[i].id, taskCategoriesTable)

\* C5: getTasks with filter.category_id = c, for every number c, returns
\* exactly the tasks that have an association row to category c.
C5_CategoryFilterExact ==
    ( /\ resp.op = "getTasks"
      /\ ~Has(resp.input[1], "limit")
      /\ OffsetOf(resp.input[1]) = 0
      /\ DOMAIN FilterOf(resp.input[1]) = {"category_id"} )
    => IdsOf(resp.result) =
           {t.id : t \in {x \in tasksTable :
                            resp.input[1].filter.category_id \in
                                AssociatedCategories(x.id, taskCategoriesTable)}}

\* C6: getTaskById returns every category of the task once, however many
\* association rows link the task to it.
C6_GetTaskByIdCategoryOnce ==
    (resp.op = "getTaskById" /\ resp.result # Null)
    => /\ NoRepeatedId(resp.result[1].categories)
       /\ IdsOf(resp.result[1].categories) =
              AssociatedCategories(resp.result[1].id, taskCategoriesTable)

\* C7: the result of getTasks holds each task id at most once and no
\* categories list holds a category id twice, also when the store holds
\* several association rows for one (task, category) pair; a request without
\* filter and page returns every task once, a task without associations with
\* an empty categories list.
C7_GetTasksNoDuplicates ==
    resp.op = "getTasks"
    => /\ NoRepeatedId(resp.result)
       /\ \A i \in DOMAIN resp.result :
              /\ NoRepeatedId(resp.result[i].categories)
              /\ AssociatedCategories(resp.result[i].id, taskCategoriesTable) = {}
                     => resp.result[i].categories = <<>>
       /\ ( /\ FilterOf(resp.input[1]) = <<>>
            /\ ~Has(resp.input[1], "limit")
            /\ OffsetOf(resp.input[1]) = 0 )
          => IdsOf(resp.result) = TaskIds(tasksTable)

\* getTasks answered from a store that holds the same association row twice
\* and a task without any, and returned both tasks
C7_Witness ==
    /\ resp.op = "getTasks"
    /\ \E r \in BagToSet(taskCategoriesTable) : taskCategoriesTable[r] > 1
    /\ \E i \in DOMAIN resp.result : resp.result[i].categories = <<>>
    /\ \E i \in DOMAIN resp.result : resp.result[i].categories # <<>>

\* C8: the association table holds at most one row per (task_id,
\* category_id) pair in every state the handlers reach.
C8_OneRowPerPair ==
    \A r \in BagToSet(taskCategoriesTable) : taskCategoriesTable[r] <= 1

\* C9: createTask and updateTask are atomic: when a call has thrown, the
\* task row createTask inserted is not in the store, and the task row is not
\* as the update statement of the updateTask call wrote it.
C9_FailedCallLeavesNothing ==
    \A c \in Clients :
        calls[c].pc = "thrown"
        => /\ calls[c].op = "createTask" => calls[c].taskId \notin TaskIds(tasksTable)
           /\ calls[c].op = "updateTask"
                  => \A t \in tasksTable :
                         t.id = calls[c].input.id => t.updated_at # calls[c].time

\* C10: when two updateTask calls on one task, with category_ids A and B,
\* have both returned, the task is associated with exactly A or exactly B.
C10_LastWriteWins ==
    ( /\ \A c \in Clients :
             /\ calls[c].op = "updateTask"
             /\ calls[c].pc = "returned"
             /\ Has(calls[c].input, "category_ids")
      /\ calls[1].input.id = calls[2].input.id )
    => AssociatedCategories(calls[1].input.id, taskCategoriesTable)
           \in {Range(calls[c].input.category_ids) : c \in Clients}

\* C11: a createTask call whose category_ids is a list of ids of existing
\* categories (of any length, elements may repeat) succeeds, adds exactly one
\* task row and returns that task with exactly the categories the list
\* names; without category_ids, or with the empty list, the new task has no
\* association row and an empty categories list.
C11_CreateTaskAcceptsExistingCategories ==
    [][\A input \in CreateTaskInputs :
          ( /\ resp'.op = "createTask"
            /\ Has(input, "category_ids") =>
                   Range(input.category_ids) \subseteq CategoryIds(categoriesTable)
            /\ createTask(input) )
          => LET named == IF Has(input, "category_ids")
                          THEN Range(input.category_ids) ELSE {}
             IN  /\ resp'.ok
                 /\ Cardinality(tasksTable') = Cardinality(tasksTable) + 1
                 /\ IdsOf(resp'.result.categories) = named
                 /\ AssociatedCategories(resp'.result.id, taskCategoriesTable') = named]_vars

TaskFields == {"title", "description", "status", "due_date", "priority"}

\* C12: a successful updateTask stores, for each of title, description,
\* status, due_date and priority, the value of the request when the field is
\* present (null included) and the value stored before the call when it is
\* absent; the returned task carries the stored values.
C12_UpdateTaskPartialUpdate ==
    [][\A input \in UpdateTaskInputs :
          (resp'.op = "updateTask" /\ resp'.ok /\ updateTask(input))
          => \A before \in tasksTable : \A after \in tasksTable' :
                 (before.id = input.id /\ after.id = input.id)
                 => \A f \in TaskFields :
                        /\ after[f] = IF f \in DOMAIN input THEN input[f] ELSE before[f]
                        /\ resp'.result[f] = after[f]]_vars

\* the first call after the creation of "Pay rent" (description "monthly",
\* status completed) was an updateTask with a title, a null description and
\* no status: the description is null, the status is kept
C12_Witness ==
    /\ resp.op = "updateTask"
    /\ resp.ok
    /\ now = 2
    /\ categoriesTable = {}
    /\ resp.result.title = "Renamed"
    /\ resp.result.description = Null
    /\ resp.result.status = "completed"
    /\ \E t \in tasksTable : t.id = resp.result.id /\ t.description = Null

\* C13: an updateTask call on an existing task whose category_ids holds an
\* id of no existing category fails and changes no table: the task row
\* (updated_at included) and the association rows are as before the call,
\* whatever other fields the request carries.
C13_UpdateTaskRejectsUnknownCategory ==
    [][\A input \in UpdateTaskInputs :
          ( /\ resp'.op = "updateTask"
            /\ Has(input, "category_ids")
            /\ \E t \in tasksTable : t.id = input.id
            /\ \E i \in DOMAIN input.category_ids :
                   input.category_ids[i] \notin CategoryIds(categoriesTable)
            /\ updateTask(input) )
          => ( /\ ~resp'.ok
               /\ tasksTable' = tasksTable
               /\ taskCategoriesTable' = taskCategoriesTable
               /\ categoriesTable' = categoriesTable )]_vars

\* an updateTask call was rejected for a category id while a category
\* exists and a task has an association row (rows the call had to keep)
C13_Witness ==
    /\ resp.op = "updateTask"
    /\ resp.error = "Category not found"
    /\ categoriesTable # {}
    /\ taskCategoriesTable # EmptyBag

\* C14: updateTask with an id that no task has fails with the not-found
\* error and leaves the tasks, categories and association tables unchanged,
\* whatever fields and category_ids the request carries.
C14_UpdateTaskNotFound ==
    [][\A input \in UpdateTaskInputs :
          ( /\ resp'.op = "updateTask"
            /\ \A t \in tasksTable : t.id # input.id
            /\ updateTask(input) )
          => ( /\ ~resp'.ok
               /\ resp'.error = "Task not found"
               /\ tasksTable' = tasksTable
               /\ categoriesTable' = categoriesTable
               /\ taskCategoriesTable' = taskCategoriesTable )]_vars

\* an updateTask call failed with not-found while another task, a category
\* and an association row exist
C14_Witness ==
    /\ resp.op = "updateTask"
    /\ resp.error = "Task not found"
    /\ tasksTable # {}
    /\ categoriesTable # {}
    /\ taskCategoriesTable # EmptyBag

\* the request of the getTasks call that returned last, and its filter
LastInput == resp.input[1]

LastFilter == IF "filter" \in DOMAIN LastInput THEN LastInput.filter ELSE <<>>

\* the whole list was asked for: no limit, nothing skipped
Unpaged == ~Has(LastInput, "limit") /\ OffsetOf(LastInput) = 0

\* C15: without limit, getTasks with status and/or priority predicates
\* returns exactly the tasks whose stored status and priority equal every
\* supplied predicate (AND); with an empty or absent filter, every task.
C15_StatusPriorityFilterExact ==
    (resp.op = "getTasks" /\ Unpaged /\ DOMAIN LastFilter \subseteq {"status", "priority"})
    => IdsOf(resp.result) =
           {t.id : t \in {x \in tasksTable :
                            \A f \in DOMAIN LastFilter : x[f] = LastFilter[f]}}

\* getTasks with both predicates returned one of two stored tasks
C15_Witness ==
    /\ resp.op = "getTasks"
    /\ Unpaged
    /\ DOMAIN LastFilter = {"status", "priority"}
    /\ Len(resp.result) = 1
    /\ Cardinality(tasksTable) = 2

\* priority a is of lower rank than priority b
LowerPriority(a, b) ==
    <<a, b>> \in {<<"low", "medium">>, <<"low", "high">>, <<"medium", "high">>}

\* C16: with sort = priority_desc no task comes before a task of higher
\* priority (high, then medium, then low: the rank, not the order of the
\* names); with sort = priority_asc no task comes before a task of lower
\* priority.
C16_PrioritySortByRank ==
    (resp.op = "getTasks" /\ Has(LastInput, "sort"))
    => \A i, j \in DOMAIN resp.result :
           i < j =>
               /\ LastInput.sort = "priority_desc"
                      => ~LowerPriority(resp.result[i].priority, resp.result[j].priority)
               /\ LastInput.sort = "priority_asc"
                      => ~LowerPriority(resp.result[j].priority, resp.result[i].priority)

\* a priority_desc request returned a high task before a medium one that was
\* created earlier ("high" precedes "medium" by rank only)
C16_Witness ==
    /\ resp.op = "getTasks"
    /\ Has(LastInput, "sort")
    /\ LastInput.sort = "priority_desc"
    /\ Len(resp.result) = 2
    /\ resp.result[1].priority = "high"
    /\ resp.result[2].priority = "medium"
    /\ resp.result[2].created_at < resp.result[1].created_at

\* C17: when getTasks is called with a limit (here: and no filter), every
\* task of the result carries all the categories the store associates with
\* it: limit and offset cut the list of tasks, never a categories list.
C17_LimitKeepsCategories ==
    (resp.op = "getTasks" /\ Has(LastInput, "limit") /\ ~Has(LastInput, "filter"))
    => \A i \in DOMAIN resp.result :
           IdsOf(resp.result[i].categories) =
               AssociatedCategories(resp.result[i].id, taskCategoriesTable)

\* C18: without limit, getTasks with filter.due_before = d returns exactly
\* the tasks whose due_date is set and <= d, and with filter.due_after = d
\* exactly those whose due_date is set and >= d; a task without due date is
\* in neither result.
C18_DueDateFilterExact ==
    (resp.op = "getTasks" /\ Unpaged)
    => /\ DOMAIN LastFilter = {"due_before"}
              => IdsOf(resp.result) =
                     {t.id : t \in {x \in tasksTable :
                                      /\ x.due_date # Null
                                      /\ x.due_date[1] <= LastFilter.due_before}}
       /\ DOMAIN LastFilter = {"due_after"}
              => IdsOf(resp.result) =
                     {t.id : t \in {x \in tasksTable :
                                      /\ x.due_date # Null
                                      /\ x.due_date[1] >= LastFilter.due_after}}

\* a due_before request returned a task due exactly at the given instant and
\* left out another stored task
C18_Witness ==
    /\ resp.op = "getTasks"
    /\ Unpaged
    /\ DOMAIN LastFilter = {"due_before"}
    /\ Len(resp.result) = 1
    /\ resp.result[1].due_date = Some(LastFilter.due_before)
    /\ Cardinality(tasksTable) = 2

\* C19: the sequence getTasks returns is ordered by the requested key:
\* created_at_asc and due_date_asc ascending, created_at_desc and
\* due_date_desc descending, and as created_at_desc when sort is omitted
\* (for due_date: among the tasks that have a due date).
C19_OrderedByRequestedKey ==
    resp.op = "getTasks"
    => \A i, j \in DOMAIN resp.result :
           i < j =>
               LET a == resp.result[i]
                   b == resp.result[j]
                   sort == IF "sort" \in DOMAIN LastInput
                           THEN LastInput.sort ELSE "created_at_desc"
                   dated == a.due_date # Null /\ b.due_date # Null
               IN  /\ sort = "created_at_asc" => a.created_at <= b.created_at
                   /\ sort = "created_at_desc" => a.created_at >= b.created_at
                   /\ (sort = "due_date_asc" /\ dated) => a.due_date[1] <= b.due_date[1]
                   /\ (sort = "due_date_desc" /\ dated) => a.due_date[1] >= b.due_date[1]

\* a due_date_desc request returned the later due date first, against the
\* order of creation
C19_Witness ==
    /\ resp.op = "getTasks"
    /\ Has(LastInput, "sort")
    /\ LastInput.sort = "due_date_desc"
    /\ Len(resp.result) = 2
    /\ resp.result[1].due_date = Some(2)
    /\ resp.result[2].due_date = Some(1)
    /\ resp.result[2].created_at < resp.result[1].created_at

\* C20: deleteTask(id) and deleteCategory(id) return success = true exactly
\* when a row with that id existed before the call, and then no row with
\* that id exists afterwards (the other rows stay); when no such row existed
\* they return success = false, without error, and change no table.
C20_DeleteReportsRemoval ==
    [][ /\ \A input \in IdParams :
               (resp'.op = "deleteTask" /\ deleteTask(input))
               => LET existed == \E t \in tasksTable : t.id = input.id
                  IN  /\ resp'.ok
                      /\ resp'.result.success = existed
                      /\ tasksTable' = {t \in tasksTable : t.id # input.id}
                      /\ categoriesTable' = categoriesTable
                      /\ ~existed => tables' = tables
        /\ \A input \in CategoryIdParams :
               (resp'.op = "deleteCategory" /\ deleteCategory(input))
               => LET existed == \E c \in categoriesTable : c.id = input.id
                  IN  /\ resp'.ok
                      /\ resp'.result.success = existed
                      /\ categoriesTable' = {c \in categoriesTable : c.id # input.id}
                      /\ tasksTable' = tasksTable
                      /\ ~existed => tables' = tables ]_vars

\* deleteCategory found no row to delete while a task, another category and
\* an association row exist
C20_Witness ==
    /\ resp.op = "deleteCategory"
    /\ resp.result = [success |-> FALSE]
    /\ tasksTable # {}
    /\ categoriesTable # {}
    /\ taskCategoriesTable # EmptyBag

\* C21: after a successful deleteTask(t) no association row has task_id = t,
\* after a successful deleteCategory(c) none has category_id = c; every
\* category (deleteTask), every task (deleteCategory), every other task or
\* category and every association row that does not reference the deleted
\* id are as before.
C21_DeleteCascades ==
    [][ /\ \A input \in IdParams :
               (resp'.op = "deleteTask" /\ resp'.result.success /\ deleteTask(input))
               => /\ \A r \in BagToSet(taskCategoriesTable') : r.task_id # input.id
                  /\ \A r \in BagToSet(taskCategoriesTable) :
                         r.task_id # input.id
                         => CopiesIn(r, taskCategoriesTable') = CopiesIn(r, taskCategoriesTable)
                  /\ BagToSet(taskCategoriesTable') \subseteq BagToSet(taskCategoriesTable)
                  /\ categoriesTable' = categoriesTable
                  /\ tasksTable' = {t \in tasksTable : t.id # input.id}
        /\ \A input \in CategoryIdParams :
               (resp'.op = "deleteCategory" /\ resp'.result.success /\ deleteCategory(input))
               => /\ \A r \in BagToSet(taskCategoriesTable') : r.category_id # input.id
                  /\ \A r \in BagToSet(taskCategoriesTable) :
                         r.category_id # input.id
                         => CopiesIn(r, taskCategoriesTable') = CopiesIn(r, taskCategoriesTable)
                  /\ BagToSet(taskCategoriesTable') \subseteq BagToSet(taskCategoriesTable)
                  /\ tasksTable' = tasksTable
                  /\ categoriesTable' = {c \in categoriesTable : c.id # input.id} ]_vars

\* a task was deleted while the other task keeps an association row
C21_Witness ==
    /\ resp.op = "deleteTask"
    /\ resp.result = [success |-> TRUE]
    /\ Cardinality(tasksTable) = 1
    /\ nextTaskId = MaxTasks + 1
    /\ taskCategoriesTable # EmptyBag

\* C25: a successful updateTask, whatever fields it carries (none but id
\* included), sets updated_at to the instant of the call, which is not
\* earlier than the value before, and leaves id and created_at as they were.
C25_UpdateTaskRefreshesUpdatedAt ==
    [][\A input \in UpdateTaskInputs :
          (resp'.op = "updateTask" /\ resp'.ok /\ updateTask(input))
          => \A before \in tasksTable : \A after \in tasksTable' :
                 (before.id = input.id /\ after.id = input.id)
                 => /\ after.updated_at = now
                    /\ after.updated_at >= before.updated_at
                    /\ after.created_at = before.created_at
                    /\ resp'.result.updated_at = after.updated_at
                    /\ resp'.result.created_at = before.created_at
                    /\ Cardinality({t \in tasksTable' : t.id = input.id}) = 1]_vars

\* an updateTask call returned a task whose updated_at is later than its
\* created_at, with the title it was created with
C25_Witness ==
    /\ resp.op = "updateTask"
    /\ resp.ok
    /\ resp.result.title = "Ship report"
    /\ resp.result.status = "pending"
    /\ resp.result.updated_at > resp.result.created_at

\* C26: getTaskById(id) returns null exactly when no task has the id, and
\* otherwise the stored fields of that task with exactly the categories
\* associated with it (none: the empty list); getCategoryById(id) returns
\* null exactly when no category has the id, and otherwise the stored row.
C26_GetByIdReturnsStoredRow ==
    [][ /\ \A input \in IdParams :
               (resp'.op = "getTaskById" /\ getTaskById(input))
               => LET stored == {t \in tasksTable : t.id = input.id}
                  IN  /\ resp'.result = Null <=> stored = {}
                      /\ resp'.result # Null
                             => LET got == resp'.result[1]
                                IN  /\ \E t \in stored :
                                           \A f \in DOMAIN t : got[f] = t[f]
                                    /\ IdsOf(got.categories) =
                                           AssociatedCategories(input.id, taskCategoriesTable)
                                    /\ Range(got.categories) \subseteq categoriesTable
        /\ \A input \in CategoryIdParams :
               (resp'.op = "getCategoryById" /\ getCategoryById(input))
               => LET stored == {c \in categoriesTable : c.id = input.id}
                  IN  /\ resp'.result = Null <=> stored = {}
                      /\ resp'.result # Null => resp'.result[1] \in stored
        /\ resp'.op \in {"getTaskById", "getCategoryById"} => tables' = tables ]_vars

\* getTaskById returned a task with one category while the other task has
\* another category
C26_Witness ==
    /\ resp.op = "getTaskById"
    /\ resp.result # Null
    /\ Len(resp.result[1].categories) = 1
    /\ \E r \in BagToSet(taskCategoriesTable) :
           /\ r.task_id # resp.result[1].id
           /\ r.category_id # resp.result[1].categories[1].id

NameBefore(a, b) ==
    <<a, b>> \in {<<"Errands", "Home">>, <<"Errands", "Work">>, <<"Home", "Work">>}

\* C27: getCategories returns every stored category exactly once, by name
\* ascending, whatever the order of creation; the empty sequence when no
\* category is stored.
C27_GetCategoriesByName ==
    resp.op = "getCategories"
    => /\ Range(resp.result) = categoriesTable
       /\ Len(resp.result) = Cardinality(categoriesTable)
       /\ \A i, j \in DOMAIN resp.result :
              i < j => ~NameBefore(resp.result[j].name, resp.result[i].name)

\* getCategories returned the category created last in front of the one
\* created first
C27_Witness ==
    /\ resp.op = "getCategories"
    /\ Len(resp.result) = 2
    /\ resp.result[1].id > resp.result[2].id
    /\ resp.result[1].name # resp.result[2].name

\* C28: in every state reached by interleaved createTask, updateTask,
\* deleteTask, createCategory and deleteCategory calls, every association
\* row references a stored task and a stored category.
C28_NoDanglingAssociation ==
    \A r \in BagToSet(taskCategoriesTable) :
        /\ \E t \in tasksTable : t.id = r.task_id
        /\ \E c \in categoriesTable : c.id = r.category_id

\* a createTask call has inserted its task and failed to insert its
\* association rows, because a category it names was deleted meanwhile,
\* while another task keeps an association row
C28_Witness ==
    \E c \in Clients :
        /\ calls[c].op = "createTask"
        /\ calls[c].pc = "thrown"
        /\ \E t \in tasksTable : t.id = calls[c].taskId
        /\ \E i \in DOMAIN calls[c].input.category_ids :
               \A cat \in categoriesTable : cat.id # calls[c].input.category_ids[i]
        /\ taskCategoriesTable # EmptyBag

\* C29: when the filter or the sort was changed while an earlier getTasks
\* request was in flight, then once every request has settled (in any
\* order) the task list of the App is a response to the request for the
\* latest filter and sort (no toggle was clicked: the store is as it was
\* when the requests were served).
C29_LatestRequestWins ==
    (app.mounted /\ app.inFlight = <<>> /\ app.toggled = <<>>)
    => app.tasks \in getTasksResults([filter |-> app.filter, sort |-> app.sortBy,
                                      offset |-> 0],
                                     tasksTable, taskCategoriesTable, categoriesTable)

\* C30: after two clicks on the status toggle of one task, both settled,
\* the stored task has the status and the other fields (updated_at aside) it
\* had at the first click, and the same association rows, whether or not
\* the second click came before the first response reached the task list.
C30_ToggleTwiceRestores ==
    ( /\ Len(app.toggled) = 2
      /\ app.toggled[1].id = app.toggled[2].id
      /\ app.inFlight = <<>> )
    => LET first == app.toggled[1]
           links == {r \in BagToSet(taskCategoriesTable) : r.task_id = first.id}
       IN  /\ \A before \in first.stored : \A t \in tasksTable :
                  t.id = first.id
                  => \A f \in DOMAIN t \ {"updated_at"} : t[f] = before[f]
           /\ [r \in links |-> taskCategoriesTable[r]] = first.links

====
